---- MODULE Spec2Model ----
(***************************************************************************)
(* The mDNS advertisement plugin (class MdnsPlugin) as a state machine.    *)
(*                                                                         *)
(* The repository holds two bindings of the same class: one to             *)
(* @homebridge/ciao (src/unnamed/part_000) and one to bonjour-service      *)
(* (src/src/index.ts).  The variable lib says which binding runs.          *)
(*                                                                         *)
(* JavaScript runs one synchronous segment at a time, so every action is   *)
(* the code between two awaits of one async call.  The host may start a    *)
(* new call between any two segments.                                      *)
(***************************************************************************)
EXTENDS Integers, Sequences, FiniteSets, TLC

(***************************************************************************)
(* Bounds of the model.                                                    *)
(***************************************************************************)
\* The number of calls (of init and destroy together) the host makes.
MaxCalls == 3

(***************************************************************************)
(* JavaScript values of the configuration: undefined, numbers, strings,    *)
(* booleans.  One record shape for all so that any two compare.            *)
(***************************************************************************)
Undef == [t |-> "undefined", n |-> 0, s |-> ""]
Num(n) == [t |-> "number", n |-> n, s |-> ""]
Str(s) == [t |-> "string", n |-> 0, s |-> s]
Bool(b) == [t |-> "boolean", n |-> IF b THEN 1 ELSE 0, s |-> ""]

\* JavaScript truthiness, as used by !x, x || y and x && y.
Truthy(v) ==
    CASE v.t = "number" -> v.n # 0
      [] v.t = "string" -> v.s # ""
      [] v.t = "boolean" -> v.n = 1
      [] OTHER -> FALSE

\* typeof v
TypeOf(v) == v.t

\* An object literal with no keys.
EmptyObject == [k \in {} |-> ""]

\* A txt option: absent, or a Record<string, string>.
NoTxt == [present |-> FALSE, rec |-> EmptyObject]
Txt(r) == [present |-> TRUE, rec |-> r]

\* The spread with the operands' priority swapped: a's value where both have the key.
ObjectSpreadFirstWins(a, b) ==
    [k \in (DOMAIN a) \cup (DOMAIN b) |-> IF k \in DOMAIN a THEN a[k] ELSE b[k]]

\* { ...a, ...b }: the keys of both, b's value where both have the key.
ObjectSpread(a, b) ==
    [k \in (DOMAIN a) \cup (DOMAIN b) |-> IF k \in DOMAIN b THEN b[k] ELSE a[k]]

(***************************************************************************)
(* Strings the regular expression reads are sequences of characters.       *)
(***************************************************************************)
RECURSIVE Join(_)
Join(cs) == IF cs = << >> THEN "" ELSE Head(cs) \o Join(Tail(cs))

SystemAdapterDot ==
    <<"s", "y", "s", "t", "e", "m", ".", "a", "d", "a", "p", "t", "e", "r", ".">>

\* The index of the first "." of ns at or after j, Len(ns) + 1 when there is none:
\* where the greedy [^.]+ stops.
RECURSIVE TokenEnd(_, _)
TokenEnd(ns, j) ==
    IF j > Len(ns) \/ ns[j] = "." THEN j ELSE TokenEnd(ns, j + 1)

\* /system\.adapter\.([^.]+)\./ matches ns starting at index i.
MatchesAt(ns, i) ==
    LET p == Len(SystemAdapterDot)
        e == TokenEnd(ns, i + p)
    IN  /\ i + p - 1 <= Len(ns)
        /\ SubSeq(ns, i, i + p - 1) = SystemAdapterDot
        /\ e > i + p
        /\ e <= Len(ns)

\* getAdapterName(): the first capture of the leftmost match, else 'unknown'.
GetAdapterName(ns) ==
    LET hits == {i \in 1..Len(ns) : MatchesAt(ns, i)}
    IN  IF hits = {} THEN "unknown"
        ELSE LET i == CHOOSE h \in hits : \A g \in hits : h <= g
                 p == Len(SystemAdapterDot)
             IN  Join(SubSeq(ns, i + p, TokenEnd(ns, i + p) - 1))

(***************************************************************************)
(* The adapter's io-package as the plugin sees it: parentIoPackage may be  *)
(* missing, may lack native, or holds a native object.                     *)
(***************************************************************************)
NoPackage == [defined |-> FALSE, hasNative |-> FALSE, native |-> EmptyObject]
PackageWithoutNative == [defined |-> TRUE, hasNative |-> FALSE, native |-> EmptyObject]
Package(native) == [defined |-> TRUE, hasNative |-> TRUE, native |-> native]

\* native[portKey]
NativeLookup(pkg, portKey) ==
    IF portKey \in DOMAIN pkg.native THEN pkg.native[portKey] ELSE Undef

\* getPortFromConfig without the typeof check: what is stored is returned as it is.
GetPortFromConfigUntyped(pkg, portKey) ==
    IF pkg.defined /\ pkg.hasNative THEN NativeLookup(pkg, portKey) ELSE Undef

\* getPortFromConfig(portKey)
GetPortFromConfig(pkg, portKey) ==
    IF /\ pkg.defined
       /\ pkg.hasNative
       /\ TypeOf(NativeLookup(pkg, portKey)) = "number"
    THEN NativeLookup(pkg, portKey)
    ELSE Undef

\* The port with the fallbacks in the other order: defaultPort before portKey.
ResolvePortDefaultFirst(cfg, pkg) ==
    LET p0 == cfg.port
        p1 == IF ~Truthy(p0) /\ Truthy(cfg.defaultPort) THEN cfg.defaultPort ELSE p0
    IN  IF ~Truthy(p1) /\ Truthy(cfg.portKey)
        THEN GetPortFromConfig(pkg, cfg.portKey.s)
        ELSE p1

\* init, lines 71-77: the port after the three fallbacks.
ResolvePort(cfg, pkg) ==
    LET p0 == cfg.port
        p1 == IF ~Truthy(p0) /\ Truthy(cfg.portKey)
              THEN GetPortFromConfig(pkg, cfg.portKey.s)
              ELSE p0
    IN  IF ~Truthy(p1) /\ Truthy(cfg.defaultPort) THEN cfg.defaultPort ELSE p1

\* init, line 68
ResolveServiceType(cfg, adapterName) ==
    IF Truthy(cfg.serviceType) THEN cfg.serviceType.s ELSE "iobroker-" \o adapterName

\* init, line 85
ResolveServiceName(cfg, adapterName, host) ==
    IF Truthy(cfg.serviceName) THEN cfg.serviceName.s
    ELSE "ioBroker " \o adapterName \o " (" \o host \o ")"

\* init, lines 88-92
BuildTxt(cfg, adapterName, host) ==
    ObjectSpread([adapter |-> adapterName, hostname |-> host],
                 IF cfg.txt.present THEN cfg.txt.rec ELSE EmptyObject)

\* The options object handed to createService / publish, lines 99-104.
ServiceOptions(cfg, ns, host, pkg) ==
    [name |-> ResolveServiceName(cfg, GetAdapterName(ns), host),
     type |-> ResolveServiceType(cfg, GetAdapterName(ns)),
     port |-> ResolvePort(cfg, pkg),
     txt |-> BuildTxt(cfg, GetAdapterName(ns), host)]

(***************************************************************************)
(* Log lines and the messages of the failures the library can raise.       *)
(***************************************************************************)
MsgDisabled == "mDNS plugin disabled by user"
MsgNoPort ==
    "mDNS plugin: no port configured. Set \"port\", \"portKey\", or \"defaultPort\" in plugin config."
MsgPublished(opts) ==
    "mDNS service published: _" \o opts.type \o "._tcp on port "
        \o ToString(opts.port.n) \o " as \"" \o opts.name \o "\""
MsgFailed(message) == "mDNS plugin failed to publish service: " \o message
MsgDestroyed == "mDNS plugin destroyed"

\* err.message of what the library throws at each step.
ErrImport == "Cannot find module"
ErrResponder == "responder construction failed"
ErrCreate == "service creation failed"
ErrAdvertise == "advertise failed"

LogLine(by, level, msg) == [by |-> by, level |-> level, msg |-> msg]

(***************************************************************************)
(* State.                                                                  *)
(***************************************************************************)
VARIABLES
    lib,              \* "ciao" (part_000) or "bonjour" (index.ts)
    pluginNamespace,  \* this.pluginNamespace, as characters
    parentIoPackage,  \* this.parentIoPackage
    hostname,         \* os.hostname()
    responder,        \* this.responder / this.bonjour: a handle, 0 for null
    service,          \* this.service: a handle, 0 for null
    inits,            \* the calls of init: where each stands, with its locals
    destroys,         \* the calls of destroy: where each stands
    log,              \* this.log: the lines written, in order
    services,         \* the library's services, by handle
    responders,       \* the library's responders, by handle
    orderly           \* every init so far was invoked with no call in flight and no handle held

vars == <<lib, pluginNamespace, parentIoPackage, hostname, responder, service,
          inits, destroys, log, services, responders, orderly>>

env == <<lib, pluginNamespace, parentIoPackage, hostname>>

NoConfig ==
    [enabled |-> Undef, serviceType |-> Undef, port |-> Undef, portKey |-> Undef,
     defaultPort |-> Undef, serviceName |-> Undef, txt |-> NoTxt]

NoOptions == [name |-> "", type |-> "", port |-> Undef, txt |-> EmptyObject]

IdleInit ==
    [pc |-> "idle", cfg |-> NoConfig, opts |-> NoOptions, svc |-> 0,
     outcome |-> "none", failure |-> ""]

IdleDestroy ==
    [pc |-> "idle", result |-> "none", svcAtCall |-> 0, respAtCall |-> 0,
     initsAtCall |-> {}, pendingAtCall |-> {}, requests |-> 0, stopThrew |-> FALSE, alone |-> TRUE,
     svcAtReturn |-> 0, respAtReturn |-> 0]

InitsInFlight == {i \in DOMAIN inits : inits[i].pc \in {"import", "advertise"}}
DestroysInFlight == {d \in DOMAIN destroys : destroys[d].pc \in {"end", "shutdown"}}

\* The calls the host has made so far.
InitsCalled == {i \in DOMAIN inits : inits[i].pc # "idle"}
DestroysCalled == {d \in DOMAIN destroys : destroys[d].pc # "idle"}
CallsMade == Cardinality(InitsCalled) + Cardinality(DestroysCalled)

\* The next call of init, and of destroy, the host can make (calls are numbered
\* in order).
NextInitCall ==
    {i \in DOMAIN inits : CallsMade < MaxCalls /\ i = Cardinality(InitsCalled) + 1}
NextDestroyCall ==
    {d \in DOMAIN destroys : CallsMade < MaxCalls /\ d = Cardinality(DestroysCalled) + 1}

\* The state after construction (lines 54-55: both handles null).
InitState(libs, namespaces, packages, hosts) ==
    /\ lib \in libs
    /\ pluginNamespace \in namespaces
    /\ parentIoPackage \in packages
    /\ hostname \in hosts
    /\ responder = 0
    /\ service = 0
    /\ inits = [i \in 1..MaxCalls |-> IdleInit]
    /\ destroys = [d \in 1..MaxCalls |-> IdleDestroy]
    /\ log = << >>
    /\ services = << >>
    /\ responders = << >>
    /\ orderly = TRUE

(***************************************************************************)
(* init                                                                    *)
(***************************************************************************)
\* init, lines 60-96: from the call to the first await (the dynamic import).
InitCall(i, cfg) ==
    /\ inits[i].pc = "idle"
    /\ LET opts == ServiceOptions(cfg, pluginNamespace, hostname, parentIoPackage)
       IN  IF ~Truthy(cfg.enabled)
           THEN /\ log' = Append(log, LogLine(<<"init", i>>, "info", MsgDisabled))
                /\ inits' = [inits EXCEPT ![i] =
                       [@ EXCEPT !.pc = "done", !.cfg = cfg, !.outcome = "disabled"]]
           ELSE IF ~Truthy(opts.port)
           THEN /\ log' = Append(log, LogLine(<<"init", i>>, "warn", MsgNoPort))
                /\ inits' = [inits EXCEPT ![i] =
                       [@ EXCEPT !.pc = "done", !.cfg = cfg, !.outcome = "noport"]]
           ELSE /\ log' = log
                /\ inits' = [inits EXCEPT ![i] =
                       [@ EXCEPT !.pc = "import", !.cfg = cfg, !.opts = opts]]
    /\ orderly' = (/\ orderly
                   /\ InitsInFlight = {}
                   /\ DestroysInFlight = {}
                   /\ service = 0
                   /\ responder = 0)
    /\ destroys' = [d \in DOMAIN destroys |->
                       IF d \in DestroysInFlight
                       THEN [destroys[d] EXCEPT !.alone = FALSE]
                       ELSE destroys[d]]
    /\ UNCHANGED <<env, responder, service, services, responders>>

\* A catch block that logs the failure without its message.
CatchPublishErrorNoMessage(i, message) ==
    /\ log' = Append(log, LogLine(<<"init", i>>, "error", MsgFailed("undefined")))
    /\ inits' = [inits EXCEPT ![i] =
           [@ EXCEPT !.pc = "done", !.outcome = "failed", !.failure = message]]

\* The catch block, lines 109-111 (107-109 in index.ts).
CatchPublishError(i, message) ==
    /\ log' = Append(log, LogLine(<<"init", i>>, "error", MsgFailed(message)))
    /\ inits' = [inits EXCEPT ![i] =
           [@ EXCEPT !.pc = "done", !.outcome = "failed", !.failure = message]]

NewResponder == [shutdown |-> 0, unpublishAll |-> 0]
NewService(opts, r, state) ==
    [opts |-> opts, resp |-> r, advertise |-> 1, stop |-> 0, state |-> state]

\* part_000, lines 96-106: from the import settling to the await of advertise().
\* how: where the library fails, "ok" when it does not.
InitPublishCiao(i, how) ==
    /\ lib = "ciao"
    /\ inits[i].pc = "import"
    /\ LET r == Len(responders) + 1
           s == Len(services) + 1
       IN  CASE how = "importFail" ->
                  /\ CatchPublishError(i, ErrImport)
                  /\ UNCHANGED <<responder, service, services, responders>>
             [] how = "responderFail" ->
                  /\ CatchPublishError(i, ErrResponder)
                  /\ UNCHANGED <<responder, service, services, responders>>
             [] how = "createFail" ->
                  /\ responder' = r
                  /\ responders' = Append(responders, NewResponder)
                  /\ CatchPublishError(i, ErrCreate)
                  /\ UNCHANGED <<service, services>>
             [] how = "ok" ->
                  /\ responder' = r
                  /\ responders' = Append(responders, NewResponder)
                  /\ service' = s
                  /\ services' = Append(services, NewService(inits[i].opts, r, "announcing"))
                  /\ inits' = [inits EXCEPT ![i] = [@ EXCEPT !.pc = "advertise", !.svc = s]]
                  /\ log' = log
    /\ UNCHANGED <<env, destroys, orderly>>

\* part_000, lines 106-111: advertise() settles.
InitAdvertiseSettled(i, ok) ==
    /\ lib = "ciao"
    /\ inits[i].pc = "advertise"
    /\ IF ok
       THEN /\ log' = Append(log, LogLine(<<"init", i>>, "info", MsgPublished(inits[i].opts)))
            /\ inits' = [inits EXCEPT ![i] = [@ EXCEPT !.pc = "done", !.outcome = "published"]]
            /\ services' = [services EXCEPT ![inits[i].svc] = [@ EXCEPT !.state = "advertised"]]
       ELSE /\ CatchPublishError(i, ErrAdvertise)
            /\ services' = [services EXCEPT ![inits[i].svc] = [@ EXCEPT !.state = "failed"]]
    /\ UNCHANGED <<env, responder, service, responders, destroys, orderly>>

\* index.ts, lines 96-109: from the import settling to the end of init.
InitPublishBonjour(i, how) ==
    /\ lib = "bonjour"
    /\ inits[i].pc = "import"
    /\ LET r == Len(responders) + 1
           s == Len(services) + 1
       IN  CASE how = "importFail" ->
                  /\ CatchPublishError(i, ErrImport)
                  /\ UNCHANGED <<responder, service, services, responders>>
             [] how = "responderFail" ->
                  /\ CatchPublishError(i, ErrResponder)
                  /\ UNCHANGED <<responder, service, services, responders>>
             [] how = "createFail" ->
                  /\ responder' = r
                  /\ responders' = Append(responders, NewResponder)
                  /\ CatchPublishError(i, ErrCreate)
                  /\ UNCHANGED <<service, services>>
             [] how = "ok" ->
                  /\ responder' = r
                  /\ responders' = Append(responders, NewResponder)
                  /\ service' = s
                  /\ services' = Append(services, NewService(inits[i].opts, r, "advertised"))
                  /\ inits' = [inits EXCEPT ![i] =
                         [@ EXCEPT !.pc = "done", !.svc = s, !.outcome = "published"]]
                  /\ log' = Append(log, LogLine(<<"init", i>>, "info", MsgPublished(inits[i].opts)))
    /\ UNCHANGED <<env, destroys, orderly>>

(***************************************************************************)
(* destroy                                                                 *)
(***************************************************************************)
\* What destroy notes when it is called (history, for the properties).
Called(d) ==
    [destroys[d] EXCEPT !.svcAtCall = service, !.respAtCall = responder,
                        !.initsAtCall = InitsCalled,
                        !.pendingAtCall = {inits[i].pc : i \in InitsInFlight},
                        !.alone = (InitsInFlight = {})]

\* Lines 136-137 (135-136 in index.ts): the debug line and return true.
Returned(rec, svc, resp) ==
    [rec EXCEPT !.pc = "done", !.result = "true", !.svcAtReturn = svc, !.respAtReturn = resp]

LogDestroyed(d) == Append(log, LogLine(<<"destroy", d>>, "debug", MsgDestroyed))

\* A destroy that never asks the service to stop.
AskStopForgotten(s) == services
\* service.end() (part_000, line 120) / service.stop() (index.ts, line 118)
AskStop(s) == [services EXCEPT ![s] = [@ EXCEPT !.stop = @ + 1]]
\* A destroy that never asks the responder to shut down.
AskShutdownForgotten(r) == responders
\* responder.shutdown() (part_000, line 129)
AskShutdown(r) == [responders EXCEPT ![r] = [@ EXCEPT !.shutdown = @ + 1]]

\* part_000, lines 117-138, from the call to the first await, if any.
DestroyCallCiao(d) ==
    /\ lib = "ciao"
    /\ destroys[d].pc = "idle"
    /\ IF service # 0
       THEN /\ services' = AskStop(service)
            /\ destroys' = [destroys EXCEPT ![d] =
                   [Called(d) EXCEPT !.pc = "end", !.requests = @ + 1]]
            /\ UNCHANGED <<responders, log>>
       ELSE IF responder # 0
       THEN /\ responders' = AskShutdown(responder)
            /\ destroys' = [destroys EXCEPT ![d] =
                   [Called(d) EXCEPT !.pc = "shutdown", !.requests = @ + 1]]
            /\ UNCHANGED <<services, log>>
       ELSE /\ destroys' = [destroys EXCEPT ![d] = Returned(Called(d), service, responder)]
            /\ log' = LogDestroyed(d)
            /\ UNCHANGED <<services, responders>>
    /\ UNCHANGED <<env, responder, service, inits, orderly>>

\* service.end() settles, the handle being cleared only when it resolved.
DestroyAfterEndKeepsOnThrow(d, threw) ==
    /\ lib = "ciao"
    /\ destroys[d].pc = "end"
    /\ service' = IF threw THEN service ELSE 0
    /\ IF responder # 0
       THEN /\ responders' = AskShutdown(responder)
            /\ destroys' = [destroys EXCEPT ![d] =
                   [@ EXCEPT !.pc = "shutdown", !.requests = @ + 1, !.stopThrew = threw]]
            /\ log' = log
       ELSE /\ destroys' = [destroys EXCEPT ![d] =
                   Returned([destroys[d] EXCEPT !.stopThrew = threw], service', responder)]
            /\ log' = LogDestroyed(d)
            /\ UNCHANGED responders
    /\ UNCHANGED <<env, responder, services, inits, orderly>>

\* part_000, lines 120-134: service.end() settles (threw: it rejected).
DestroyAfterEnd(d, threw) ==
    /\ lib = "ciao"
    /\ destroys[d].pc = "end"
    /\ service' = 0
    /\ IF responder # 0
       THEN /\ responders' = AskShutdown(responder)
            /\ destroys' = [destroys EXCEPT ![d] =
                   [@ EXCEPT !.pc = "shutdown", !.requests = @ + 1, !.stopThrew = threw]]
            /\ log' = log
       ELSE /\ destroys' = [destroys EXCEPT ![d] =
                   Returned([destroys[d] EXCEPT !.stopThrew = threw], 0, responder)]
            /\ log' = LogDestroyed(d)
            /\ UNCHANGED responders
    /\ UNCHANGED <<env, responder, services, inits, orderly>>

\* part_000, lines 129-138: responder.shutdown() settles; resolved or rejected,
\* the code goes on alike.
DestroyAfterShutdown(d) ==
    /\ lib = "ciao"
    /\ destroys[d].pc = "shutdown"
    /\ responder' = 0
    /\ destroys' = [destroys EXCEPT ![d] = Returned(destroys[d], service, 0)]
    /\ log' = LogDestroyed(d)
    /\ UNCHANGED <<env, service, services, responders, inits, orderly>>

\* index.ts, lines 115-137: destroy has no await, it is one segment.
\* stop: "ok", "throw", or "absent" (service.stop is undefined, so ?.() calls nothing);
\* unpublishAllThrows: whether bonjour.unpublishAll() throws, which skips bonjour.destroy().
\* Whether bonjour.destroy() throws changes nothing.
DestroyBonjour(d, stop, unpublishAllThrows) ==
    /\ lib = "bonjour"
    /\ destroys[d].pc = "idle"
    /\ LET stopAsked == service # 0 /\ stop # "absent"
           released == IF responder = 0 THEN 0 ELSE IF unpublishAllThrows THEN 1 ELSE 2
       IN  /\ services' = IF stopAsked THEN AskStop(service) ELSE services
           /\ responders' =
                  IF responder = 0 THEN responders
                  ELSE [responders EXCEPT ![responder] =
                           [@ EXCEPT !.unpublishAll = @ + 1,
                                     !.shutdown = IF unpublishAllThrows THEN @ ELSE @ + 1]]
           /\ destroys' = [destroys EXCEPT ![d] =
                  Returned([Called(d) EXCEPT
                                !.requests = (IF stopAsked THEN 1 ELSE 0) + released,
                                !.stopThrew = (service # 0 /\ stop = "throw")],
                           0, 0)]
    /\ service' = 0
    /\ responder' = 0
    /\ log' = LogDestroyed(d)
    /\ UNCHANGED <<env, inits, orderly>>

(***************************************************************************)
(* The inputs: namespaces, io-packages, host names and plugin configs.     *)
(***************************************************************************)
\* "system.adapter.ai-assistant.0.plugins.mdns"
NsAiAssistant ==
    SystemAdapterDot \o <<"a", "i", "-", "a", "s", "s", "i", "s", "t", "a", "n", "t", ".",
                          "0", ".", "p", "l", "u", "g", "i", "n", "s", ".", "m", "d", "n", "s">>
\* "system.adapter.foo.0.plugins.mdns"
NsFoo ==
    SystemAdapterDot \o <<"f", "o", "o", ".", "0", ".", "p", "l", "u", "g", "i", "n", "s", ".",
                          "m", "d", "n", "s">>
\* "garbage"
NsGarbage == <<"g", "a", "r", "b", "a", "g", "e">>
\* "system.adapter.foo": no dot after the token
NsNoDot == SystemAdapterDot \o <<"f", "o", "o">>
\* "system.adapter..0.": an empty token
NsEmptyToken == SystemAdapterDot \o <<".", "0", ".">>
\* "my.system.adapter.bar.1.": the pattern is not anchored
NsEmbedded == <<"m", "y", ".">> \o SystemAdapterDot \o <<"b", "a", "r", ".", "1", ".">>
\* "" (also what an undefined pluginNamespace becomes, line 145)
NsEmpty == << >>

Namespaces == {NsAiAssistant, NsFoo, NsGarbage, NsNoDot, NsEmptyToken, NsEmbedded, NsEmpty}

Packages ==
    {NoPackage, PackageWithoutNative, Package(EmptyObject),
     Package([x |-> Num(9999)]), Package([x |-> Num(0)]), Package([x |-> Str("9999")])}

HostNames == {"host1"}

Configs ==
    [enabled : {Undef, Bool(FALSE), Bool(TRUE)},
     serviceType : {Undef, Str("iobroker-ai")},
     port : {Undef, Num(0), Num(8089)},
     portKey : {Undef, Str(""), Str("x")},
     defaultPort : {Undef, Num(0), Num(7000)},
     serviceName : {Undef, Str("Kitchen")},
     txt : {NoTxt, Txt([path |-> "/audio"]), Txt([adapter |-> "custom", version |-> "1"])}]

\* The example of the class comment, lines 10-17.
ExampleConfig ==
    [NoConfig EXCEPT !.enabled = Bool(TRUE), !.serviceType = Str("iobroker-ai"),
                     !.port = Num(8089), !.txt = Txt([path |-> "/audio"])]

\* The configs of the lifecycle runs: one per way init can go.
LifecycleConfigs ==
    {NoConfig, [NoConfig EXCEPT !.enabled = Bool(TRUE)], ExampleConfig}

PublishOutcomes == {"importFail", "responderFail", "createFail", "ok"}
StopOutcomes == {"ok", "throw", "absent"}

(***************************************************************************)
(* The plugin under any host: init and destroy are called in any order,    *)
(* also while earlier calls are suspended at an await.                     *)
(***************************************************************************)
Init == InitState({"ciao", "bonjour"}, {NsAiAssistant}, {Package([x |-> Num(9999)])}, HostNames)

Next ==
    \/ \E i \in NextInitCall, cfg \in LifecycleConfigs : InitCall(i, cfg)
    \/ \E i \in InitsCalled, how \in PublishOutcomes : InitPublishCiao(i, how)
    \/ \E i \in InitsCalled, ok \in BOOLEAN : InitAdvertiseSettled(i, ok)
    \/ \E i \in InitsCalled, how \in PublishOutcomes : InitPublishBonjour(i, how)
    \/ \E d \in NextDestroyCall : DestroyCallCiao(d)
    \/ \E d \in DestroysCalled, threw \in BOOLEAN : DestroyAfterEnd(d, threw)
    \/ \E d \in DestroysCalled : DestroyAfterShutdown(d)
    \/ \E d \in NextDestroyCall, stop \in StopOutcomes, u \in BOOLEAN :
           DestroyBonjour(d, stop, u)

Spec == Init /\ [][Next]_vars

(***************************************************************************)
(* One init, over every config, namespace and io-package: the resolution   *)
(* of the advertisement and its publication.                               *)
(***************************************************************************)
InitResolve == InitState({"ciao", "bonjour"}, Namespaces, Packages, HostNames)

NextResolve ==
    \/ \E i \in NextInitCall \cap {1}, cfg \in Configs : InitCall(i, cfg)
    \/ \E how \in PublishOutcomes : InitPublishCiao(1, how)
    \/ \E ok \in BOOLEAN : InitAdvertiseSettled(1, ok)
    \/ \E how \in PublishOutcomes : InitPublishBonjour(1, how)

SpecResolve == InitResolve /\ [][NextResolve]_vars

(***************************************************************************)
(* What the properties say a config should resolve to, stated apart from   *)
(* the code's own steps.                                                   *)
(***************************************************************************)
\* The adapter name each namespace of the model stands for.
ExpectedAdapterName(ns) ==
    CASE ns = NsAiAssistant -> "ai-assistant"
      [] ns = NsFoo -> "foo"
      [] ns = NsEmbedded -> "bar"
      [] OTHER -> "unknown"

\* The native value under the config's portKey: undefined when there is no portKey,
\* no io-package, no native object or no such key.
NativeValue(cfg, pkg) ==
    IF /\ cfg.portKey.t = "string"
       /\ cfg.portKey.s # ""
       /\ pkg.defined
       /\ pkg.hasNative
       /\ cfg.portKey.s \in DOMAIN pkg.native
    THEN pkg.native[cfg.portKey.s]
    ELSE Undef

IsNonZeroNumber(v) == v.t = "number" /\ v.n # 0

\* The port by priority, a source counting only when it is a non-zero number.
ExpectedPort(cfg, pkg) ==
    IF IsNonZeroNumber(cfg.port) THEN cfg.port
    ELSE IF IsNonZeroNumber(NativeValue(cfg, pkg)) THEN NativeValue(cfg, pkg)
    ELSE IF IsNonZeroNumber(cfg.defaultPort) THEN cfg.defaultPort
    ELSE Undef

\* The port by priority as C2 words it: the native value counts whenever it is a
\* number, 0 included.
ClaimedPort(cfg, pkg) ==
    IF IsNonZeroNumber(cfg.port) THEN cfg.port
    ELSE IF NativeValue(cfg, pkg).t = "number" THEN NativeValue(cfg, pkg)
    ELSE IF IsNonZeroNumber(cfg.defaultPort) THEN cfg.defaultPort
    ELSE Undef

Enabled(cfg) == cfg.enabled = Bool(TRUE)

\* The one call of init of SpecResolve.
TheInit == inits[1]
InitReturned == TheInit.pc = "done"
InitPastResolution == TheInit.pc \in {"import", "advertise", "done"}
NothingCreated ==
    /\ responder = 0
    /\ service = 0
    /\ services = << >>
    /\ responders = << >>

C2_PortByPriorityOfNonZero ==
    (InitPastResolution /\ Enabled(TheInit.cfg)) =>
        LET want == ExpectedPort(TheInit.cfg, parentIoPackage)
        IN  /\ (want = Undef) <=> (TheInit.outcome = "noport")
            /\ (want # Undef) => TheInit.opts.port = want
            /\ \A s \in DOMAIN services : services[s].opts.port = want

\* The native value is 0 and config.port is 0: the port comes from defaultPort.
C2_Witness ==
    /\ InitPastResolution
    /\ Enabled(TheInit.cfg)
    /\ TheInit.cfg.port = Num(0)
    /\ NativeValue(TheInit.cfg, parentIoPackage) = Num(0)
    /\ TheInit.cfg.defaultPort = Num(7000)
    /\ TheInit.opts.port = Num(7000)
    /\ service # 0

(***************************************************************************)
(* C2 as stated: the native value under portKey is accepted whenever its   *)
(* type is numeric, 0 included, and only otherwise does defaultPort apply  *)
(* or init abort.                                                          *)
(***************************************************************************)
C2_NativeAcceptedWheneverNumeric ==
    (InitPastResolution /\ Enabled(TheInit.cfg)) =>
        LET want == ClaimedPort(TheInit.cfg, parentIoPackage)
        IN  /\ (want = Undef) <=> (TheInit.outcome = "noport")
            /\ (want # Undef) => TheInit.opts.port = want

(***************************************************************************)
(* C10: enabled is optional and defaults to true: an init whose config     *)
(* omits enabled and gives a port goes on to publish, as with enabled      *)
(* true.                                                                   *)
(***************************************************************************)
C10_EnabledDefaultsToTrue ==
    (InitPastResolution /\ TheInit.cfg.enabled = Undef
         /\ ExpectedPort(TheInit.cfg, parentIoPackage) # Undef) =>
        TheInit.outcome # "disabled"

(***************************************************************************)
(* C3, as amended: for every enabled config with a resolvable port, one    *)
(* init makes at most one advertise/publish request, and exactly one       *)
(* unless the library import, the responder construction or the service    *)
(* creation fails (then none).  The request describes the service as       *)
(* name: config.serviceName or else 'ioBroker <adapterName> (<hostname>)', *)
(* type: config.serviceType or else 'iobroker-<adapterName>', port: the    *)
(* resolved port, txt: adapter and hostname overlaid with config.txt, the  *)
(* base keys always present and config.txt winning on a collision;         *)
(* adapterName is the token after 'system.adapter.' or 'unknown'.          *)
(***************************************************************************)
ExpectedName(cfg, ns, host) ==
    IF cfg.serviceName.t = "string" /\ cfg.serviceName.s # ""
    THEN cfg.serviceName.s
    ELSE "ioBroker " \o ExpectedAdapterName(ns) \o " (" \o host \o ")"

ExpectedType(cfg, ns) ==
    IF cfg.serviceType.t = "string" /\ cfg.serviceType.s # ""
    THEN cfg.serviceType.s
    ELSE "iobroker-" \o ExpectedAdapterName(ns)

TxtAsExpected(txt, cfg, ns, host) ==
    LET given == IF cfg.txt.present THEN cfg.txt.rec ELSE EmptyObject
    IN  /\ DOMAIN txt = {"adapter", "hostname"} \cup DOMAIN given
        /\ \A k \in DOMAIN given : txt[k] = given[k]
        /\ "adapter" \notin DOMAIN given => txt["adapter"] = ExpectedAdapterName(ns)
        /\ "hostname" \notin DOMAIN given => txt["hostname"] = host

DescriptionAsExpected(d, cfg) ==
    /\ d.name = ExpectedName(cfg, pluginNamespace, hostname)
    /\ d.type = ExpectedType(cfg, pluginNamespace)
    /\ d.port = ExpectedPort(cfg, parentIoPackage)
    /\ TxtAsExpected(d.txt, cfg, pluginNamespace, hostname)

\* The library failed before a service existed.
FailedBeforeService == TheInit.failure \in {ErrImport, ErrResponder, ErrCreate}

ExampleDescription ==
    [name |-> "ioBroker ai-assistant (host1)",
     type |-> "iobroker-ai",
     port |-> Num(8089),
     txt |-> [adapter |-> "ai-assistant", hostname |-> "host1", path |-> "/audio"]]

C3_OneRequestWithResolvedDescription ==
    /\ Len(services) <= 1
    /\ \A s \in DOMAIN services :
           /\ services[s].advertise = 1
           /\ DescriptionAsExpected(services[s].opts, TheInit.cfg)
    /\ (/\ TheInit.pc \in {"advertise", "done"}
        /\ Enabled(TheInit.cfg)
        /\ ExpectedPort(TheInit.cfg, parentIoPackage) # Undef
        /\ ~FailedBeforeService) =>
           Len(services) = 1
    /\ (InitReturned /\ FailedBeforeService) => services = << >>
    /\ (/\ TheInit.outcome = "published"
        /\ TheInit.cfg = ExampleConfig
        /\ pluginNamespace = NsAiAssistant) =>
           services = <<NewService(ExampleDescription, 1, "advertised")>>

\* A config whose txt collides with the base key adapter has been published under
\* the default name and type.
C3_Witness ==
    /\ TheInit.outcome = "published"
    /\ pluginNamespace = NsEmbedded
    /\ TheInit.cfg.txt = Txt([adapter |-> "custom", version |-> "1"])
    /\ TheInit.cfg.serviceName = Undef
    /\ TheInit.cfg.serviceType = Undef
    /\ Len(services) = 1
    /\ services[1].opts.name = "ioBroker bar (host1)"
    /\ services[1].opts.type = "iobroker-bar"
    /\ services[1].opts.txt = [adapter |-> "custom", hostname |-> "host1", version |-> "1"]

(***************************************************************************)
(* C3 as stated: for every enabled config with a resolvable port, one init *)
(* results in exactly one advertise/publish request, with the resolved     *)
(* description.                                                            *)
(***************************************************************************)
C3_ExactlyOneRequestForEveryConfig ==
    (/\ InitReturned
     /\ Enabled(TheInit.cfg)
     /\ ExpectedPort(TheInit.cfg, parentIoPackage) # Undef) =>
        /\ Len(services) = 1
        /\ services[1].advertise = 1
        /\ DescriptionAsExpected(services[1].opts, TheInit.cfg)

(***************************************************************************)
(* The lifecycle properties, under Spec.                                   *)
(***************************************************************************)
\* init i is the only init the host has called, and destroy was not called.
OnlyInit(i) == InitsCalled = {i} /\ DestroysCalled = {}

LinesOf(by) == SelectSeq(log, LAMBDA l : l.by = by)

\* The library confirmed the advertisement of s and was not asked to end it.
Advertising(s) ==
    /\ services[s].state = "advertised"
    /\ services[s].stop = 0
    /\ responders[services[s].resp].unpublishAll = 0

(***************************************************************************)
(* C4, as amended: when responder construction, service creation or        *)
(* advertisement start fails during init, init completes without throwing, *)
(* writes exactly one log line, of error severity and carrying the         *)
(* failure's message, and no success line; the publish is not retried and  *)
(* nothing is advertising.  The handles assigned before the failure stay   *)
(* held until destroy: none when the import or the responder construction  *)
(* failed, the responder when the service creation failed, the responder   *)
(* and the service when advertise() failed.                                *)
(***************************************************************************)
C4_FailureAbsorbedHandlesKept ==
    \A i \in DOMAIN inits :
        inits[i].outcome = "failed" =>
            /\ inits[i].pc = "done"
            /\ inits[i].failure \in {ErrImport, ErrResponder, ErrCreate, ErrAdvertise}
            /\ LinesOf(<<"init", i>>) =
                   <<LogLine(<<"init", i>>, "error",
                             "mDNS plugin failed to publish service: " \o inits[i].failure)>>
            /\ OnlyInit(i) =>
                   /\ Len(services) <= 1
                   /\ Len(responders) <= 1
                   /\ \A s \in DOMAIN services : services[s].advertise = 1 /\ ~Advertising(s)
                   /\ inits[i].failure \in {ErrImport, ErrResponder} =>
                          responder = 0 /\ service = 0 /\ responders = << >>
                   /\ inits[i].failure = ErrCreate =>
                          responder = 1 /\ service = 0 /\ services = << >>
                   /\ inits[i].failure = ErrAdvertise =>
                          responder = 1 /\ service = 1 /\ services[1].state = "failed"

\* advertise() has rejected: the error is logged and both handles are held.
C4_Witness ==
    /\ OnlyInit(1)
    /\ inits[1].outcome = "failed"
    /\ inits[1].failure = ErrAdvertise
    /\ Len(log) = 1
    /\ service = 1
    /\ responder = 1

(***************************************************************************)
(* C4 as stated: after a failed init the component holds no service        *)
(* handle.                                                                 *)
(***************************************************************************)
C4_FailedInitHoldsNoServiceHandle ==
    \A i \in DOMAIN inits :
        (inits[i].outcome = "failed" /\ OnlyInit(i)) => service = 0

(***************************************************************************)
(* C5: destroy always succeeds and is idempotent.  Called in any settled   *)
(* state (init never ran, was disabled or aborted, failed, succeeded,      *)
(* destroy already ran), and whether the stop and shutdown operations      *)
(* succeed or throw, it returns true without raising and leaves both       *)
(* handles absent; a destroy that finds both handles absent, as a second   *)
(* destroy does, makes no stop or shutdown request and returns true.       *)
(* (alone: no init was suspended or called while that destroy ran; the     *)
(* handles are absent at its return also when the host's one init is in    *)
(* flight.)                                                                *)
(***************************************************************************)
C5_DestroyAlwaysSucceedsIdempotent ==
    \A d \in DestroysCalled :
        /\ destroys[d].result \in {"none", "true"}
        /\ destroys[d].pc = "done" <=> destroys[d].result = "true"
        /\ (destroys[d].pc = "done"
                /\ (destroys[d].alone \/ Cardinality(InitsCalled) <= 1)) =>
               destroys[d].svcAtReturn = 0 /\ destroys[d].respAtReturn = 0
        /\ (destroys[d].svcAtCall = 0 /\ destroys[d].respAtCall = 0) =>
               /\ destroys[d].pc = "done"
               /\ destroys[d].requests = 0
        /\ (destroys[d].pc = "done" /\ destroys[d].alone /\ InitsCalled = {}) =>
               service = 0 /\ responder = 0

\* After a successful init, a first destroy whose service stop threw has released
\* both handles and a second destroy has returned having asked for nothing.
C5_Witness ==
    /\ inits[1].outcome = "published"
    /\ destroys[1].pc = "done"
    /\ destroys[1].alone
    /\ destroys[1].stopThrew
    /\ destroys[1].requests >= 2
    /\ destroys[2].pc = "done"
    /\ destroys[2].result = "true"
    /\ destroys[2].requests = 0
    /\ service = 0
    /\ responder = 0

(***************************************************************************)
(* C6: during destroy a held service is asked to stop and a held responder *)
(* is then asked to shut down / destroy; whenever a responder handle is    *)
(* held at destroy its full shutdown / destroy is requested, also when the *)
(* service's stop throws.                                                  *)
(***************************************************************************)
C6_HeldResponderIsAskedToShutDown ==
    \A d \in DestroysCalled :
        (destroys[d].pc = "done" /\ destroys[d].alone /\ destroys[d].respAtCall # 0) =>
            responders[destroys[d].respAtCall].shutdown > 0

(***************************************************************************)
(* C7, as amended: provided the host invokes init only while no other init *)
(* or destroy call is in flight and the component holds no handle, the     *)
(* component has at most one active advertisement: at most one service has *)
(* been asked to be published and not yet asked to stop, and that service  *)
(* is the one the service handle refers to.                                *)
(***************************************************************************)
\* Asked to be published and not yet asked to stop (unpublishAll asks all to stop).
Active(s) ==
    /\ services[s].advertise > 0
    /\ services[s].stop = 0
    /\ responders[services[s].resp].unpublishAll = 0

ActiveServices == {s \in DOMAIN services : Active(s)}

C7_AtMostOneActiveWhenOrderly ==
    orderly =>
        /\ Cardinality(ActiveServices) <= 1
        /\ \A s \in ActiveServices : s = service

\* init, destroy, init, in order: the second advertisement is the active one.
C7_Witness ==
    /\ orderly
    /\ Len(services) = 2
    /\ ActiveServices = {2}
    /\ service = 2

(***************************************************************************)
(* C7 as stated: after any sequence of init and destroy calls at most one  *)
(* service is published and not stopped, and it is the one the service     *)
(* handle refers to.                                                       *)
(***************************************************************************)
C7_AtMostOneActiveAfterAnyCalls ==
    /\ Cardinality(ActiveServices) <= 1
    /\ \A s \in ActiveServices : s = service

(***************************************************************************)
(* C8, as amended: destroy invoked while the one init is suspended at an   *)
(* await returns true without raising.  While init waits for the library   *)
(* import destroy finds no handles and asks the library for nothing; while *)
(* init waits for advertise() to confirm destroy (the first to run during  *)
(* that wait) finds the service and the responder handle init has          *)
(* assigned, asks that service to stop and that responder to shut down,    *)
(* and leaves both handles absent.                                         *)
(***************************************************************************)
C8_DestroyDuringInit ==
    \A d \in DestroysCalled :
        InitsCalled = {1} =>
            /\ destroys[d].pc = "done" => destroys[d].result = "true"
            /\ destroys[d].pendingAtCall = {"import"} =>
                   /\ destroys[d].svcAtCall = 0
                   /\ destroys[d].respAtCall = 0
                   /\ destroys[d].requests = 0
                   /\ destroys[d].pc = "done"
            /\ (/\ destroys[d].pendingAtCall = {"advertise"}
                /\ \A e \in 1..(d - 1) : destroys[e].pendingAtCall # {"advertise"}) =>
                   /\ destroys[d].svcAtCall = inits[1].svc
                   /\ destroys[d].svcAtCall # 0
                   /\ destroys[d].respAtCall = services[inits[1].svc].resp
                   /\ services[destroys[d].svcAtCall].stop > 0
                   /\ destroys[d].pc = "done" =>
                          /\ responders[destroys[d].respAtCall].shutdown > 0
                          /\ destroys[d].svcAtReturn = 0
                          /\ destroys[d].respAtReturn = 0

\* destroy was called while init waited for advertise() and has returned, having
\* released the two handles it found.
C8_Witness ==
    /\ InitsCalled = {1}
    /\ destroys[1].pendingAtCall = {"advertise"}
    /\ destroys[1].pc = "done"
    /\ destroys[1].svcAtCall = 1
    /\ destroys[1].respAtCall = 1
    /\ destroys[1].requests = 2
    /\ service = 0
    /\ responder = 0

(***************************************************************************)
(* C8 as stated: a destroy that runs while init is suspended at any of its *)
(* await points finds no handles to release.                               *)
(***************************************************************************)
C8_DestroyDuringInitFindsNoHandles ==
    \A d \in DestroysCalled :
        (InitsCalled = {1} /\ destroys[d].pendingAtCall # {}) =>
            /\ destroys[d].svcAtCall = 0
            /\ destroys[d].respAtCall = 0
            /\ destroys[d].requests = 0

(***************************************************************************)
(* C9: once the destroy that follows the call of init has returned and the *)
(* init has settled (here: published), the component holds no service or   *)
(* responder handle and every service it asked the library to publish has  *)
(* been asked to stop, for every ordering of one init and one destroy,     *)
(* destroy during the pending init included.                               *)
(***************************************************************************)
C9_NothingPublishedAfterDestroy ==
    (/\ InitsCalled = {1}
     /\ DestroysCalled = {1}
     /\ destroys[1].initsAtCall = {1}
     /\ destroys[1].pc = "done"
     /\ inits[1].outcome = "published") =>
        /\ service = 0
        /\ responder = 0
        /\ ActiveServices = {}
====
